---------------------------- MODULE Spec2Model ----------------------------
(***************************************************************************)
(* Model of src/widgets/gauge.rs (vdash): the Gauge2 progress-bar widget.  *)
(*                                                                         *)
(* State: one Gauge2 configuration being built by the chained builder      *)
(* calls, the cell buffer it is rendered into, the area of the last        *)
(* render, and how the last call ended.                                    *)
(*                                                                         *)
(* Representation choices:                                                 *)
(*  - ratio (f64) is a fixed-point number of thousandths.  The ratio       *)
(*    inputs are values on which IEEE-754 double arithmetic and exact      *)
(*    arithmetic give the same results for (width * ratio).round() and     *)
(*    (ratio * 100.0).round() (f64::round rounds half away from zero).     *)
(*  - u16 arithmetic keeps its width: a debug build panics on overflow,    *)
(*    a release build wraps modulo 2^16.  The build profile is an input    *)
(*    of render.                                                           *)
(*  - a Style is its fg/bg pair ("None" = unset); modifiers are not        *)
(*    modelled.  A Span is a sequence of one-column graphemes and a style. *)
(*  - Buffer, Block, Rect and Span are the tui crate's; they are modelled  *)
(*    after tui 0.19.                                                      *)
(***************************************************************************)
EXTENDS Integers, Sequences, FiniteSets, TLC

VARIABLES gauge, buf, area, status, last

vars == <<gauge, buf, area, status, last>>

-----------------------------------------------------------------------------
(* Bounds of the model *)

\* the buffer is BufW columns wide and BufH rows high
BufW == 4
BufH == 3
\* percent() is called with 0 .. MaxPercentInput
MaxPercentInput == 102

(* Program constants *)

\* assert!(percent <= 100)
MaxPercent == 100
\* ratio is kept in thousandths: RatioScale stands for 1.0
RatioScale == 1000
U16 == 2 ^ 16

-----------------------------------------------------------------------------
(* tui types *)

NoColor == "None"
Reset == "Reset"

Style(fg, bg) == [fg |-> fg, bg |-> bg]
DefaultStyle == Style(NoColor, NoColor)

Rect(x, y, w, h) == [x |-> x, y |-> y, width |-> w, height |-> h]
Left(r) == r.x
Right(r) == r.x + r.width
Top(r) == r.y
Bottom(r) == r.y + r.height

Min(a, b) == IF a < b THEN a ELSE b
SatSub(a, b) == IF a > b THEN a - b ELSE 0

Cells == (0 .. BufW - 1) \X (0 .. BufH - 1)
InRect(r, x, y) == x >= Left(r) /\ x < Right(r) /\ y >= Top(r) /\ y < Bottom(r)
InBuffer(x, y) == <<x, y>> \in Cells

\* Cell::set_style: a set colour replaces the cell's, an unset one keeps it
Patch(cell, style) ==
    [cell EXCEPT !.fg = IF style.fg = NoColor THEN @ ELSE style.fg,
                 !.bg = IF style.bg = NoColor THEN @ ELSE style.bg]

\* Buffer::set_style(area, style)
SetStyle(b, r, style) ==
    [c \in Cells |-> IF InRect(r, c[1], c[2]) THEN Patch(b[c], style) ELSE b[c]]

\* Buffer::set_span / set_stringn: writes graphemes from column x on row y
\* while they fit below min(buffer.right, x + width); index_of debug-asserts
\* that (x, y) lies in the buffer.
SetSpan(b, x, y, span, width, debug) ==
    IF ~InBuffer(x, y)
    THEN [buf |-> b, ok |-> ~debug]
    ELSE LET maxOffset == Min(BufW, width + x)
             n == Min(Len(span.content), SatSub(maxOffset, x))
         IN  [buf |-> [c \in Cells |->
                          IF c[2] = y /\ c[1] >= x /\ c[1] < x + n
                          THEN Patch([b[c] EXCEPT !.symbol = span.content[c[1] - x + 1]],
                                     span.style)
                          ELSE b[c]],
              ok |-> TRUE]

\* Block::inner: each border takes one row/column, saturating
Inner(block, r) ==
    IF block.borders
    THEN [x |-> Min(r.x + 1, Right(r)), y |-> Min(r.y + 1, Bottom(r)),
          width |-> SatSub(r.width, 2), height |-> SatSub(r.height, 2)]
    ELSE r

\* the symbol Block::render leaves in a cell of the area's perimeter
BorderSymbol(r, x, y, old) ==
    CASE x = Left(r) /\ y = Top(r) -> "+tl"
      [] x = Left(r) /\ y = Bottom(r) - 1 -> "+bl"
      [] x = Right(r) - 1 /\ y = Top(r) -> "+tr"
      [] x = Right(r) - 1 /\ y = Bottom(r) - 1 -> "+br"
      [] y = Bottom(r) - 1 -> "-"
      [] x = Right(r) - 1 -> "|"
      [] y = Top(r) -> "-"
      [] x = Left(r) -> "|"
      [] OTHER -> old

\* Block::render(area, buf): nothing on an empty area, else the borders
BlockRender(block, r, b) ==
    IF r.width * r.height = 0 \/ ~block.borders
    THEN b
    ELSE [c \in Cells |->
            IF InRect(r, c[1], c[2])
            THEN [b[c] EXCEPT !.symbol = BorderSymbol(r, c[1], c[2], @)]
            ELSE b[c]]

-----------------------------------------------------------------------------
(* Gauge2 *)

NoBlock == [some |-> FALSE, borders |-> FALSE]
SomeBlock(borders) == [some |-> TRUE, borders |-> borders]

NoLabel == [some |-> FALSE, content |-> <<>>, style |-> DefaultStyle]
SomeLabel(content, style) == [some |-> TRUE, content |-> content, style |-> style]

\* Gauge2::default()
DefaultGauge ==
    [block |-> NoBlock, ratio |-> 0, label |-> NoLabel,
     style |-> DefaultStyle, gauge_style |-> DefaultStyle]


\* Gauge2::block
Block(g, b) == [g EXCEPT !.block = b]

\* percent with the bound taken exclusively
Percent_Below100(g, p) ==
    IF p < MaxPercent
    THEN [ok |-> TRUE, gauge |-> [g EXCEPT !.ratio = (p * RatioScale) \div MaxPercent]]
    ELSE [ok |-> FALSE, gauge |-> g]

\* Gauge2::percent: assert!(percent <= 100); ratio = percent / 100.0
Percent(g, p) ==
    IF p <= MaxPercent
    THEN [ok |-> TRUE, gauge |-> [g EXCEPT !.ratio = (p * RatioScale) \div MaxPercent]]
    ELSE [ok |-> FALSE, gauge |-> g]

\* ratio with the lower bound left unchecked
Ratio_NoLowerBound(g, r) ==
    IF r <= RatioScale
    THEN [ok |-> TRUE, gauge |-> [g EXCEPT !.ratio = r]]
    ELSE [ok |-> FALSE, gauge |-> g]

\* Gauge2::ratio: assert!(ratio <= 1.0 && ratio >= 0.0)
Ratio(g, r) ==
    IF r <= RatioScale /\ r >= 0
    THEN [ok |-> TRUE, gauge |-> [g EXCEPT !.ratio = r]]
    ELSE [ok |-> FALSE, gauge |-> g]

\* Gauge2::label
Label(g, l) == [g EXCEPT !.label = l]

\* Gauge2::style
SetBaseStyle(g, s) == [g EXCEPT !.style = s]

\* Gauge2::gauge_style
GaugeStyle(g, s) == [g EXCEPT !.gauge_style = s]

-----------------------------------------------------------------------------
(* Gauge2::render *)

\* u16 arithmetic of a release build
Wrap(n) == n % U16
Overflows(n) == n < 0 \/ n >= U16

\* f64::round of num/den for num >= 0, den > 0: half away from zero
Round(num, den) == (2 * num + den) \div (2 * den)

\* the decimal digits of n, as format!("{}", n) prints them
DigitChars == <<"0", "1", "2", "3", "4", "5", "6", "7", "8", "9">>
RECURSIVE Digits(_)
Digits(n) ==
    IF n < 10 THEN <<DigitChars[n + 1]>>
    ELSE Append(Digits(n \div 10), DigitChars[(n % 10) + 1])

\* the drawable rectangle without the one-row case, as in tui's Gauge
GaugeArea_NoOneRowCase(block, a) == IF block.some THEN Inner(block, a) ELSE a

\* the drawable rectangle: the block's inner area, or the whole area when
\* there is no block or the area is one row high
GaugeArea(block, a) ==
    IF block.some
    THEN IF a.height = 1 THEN a ELSE Inner(block, a)
    ELSE a

\* the label on the first row instead of the middle one
Center_Top(ga) == Top(ga)

\* the row of the label
Center(ga) ==
    IF ga.height < 1
    THEN ga.height + Top(ga)
    ELSE ga.height \div 2 + Top(ga)

\* the fill width truncated instead of rounded
FillWidth_Truncated(ga, ratio) == (ga.width * ratio) \div RatioScale

\* (f64::from(gauge_area.width) * self.ratio).round() as u16
FillWidth(ga, ratio) == Round(ga.width * ratio, RatioScale)

\* end = gauge_area.left() + width
FillEnd(ga, ratio) == Wrap(Left(ga) + FillWidth(ga, ratio))

\* the default label with the percentage truncated instead of rounded
LabelSpan_Truncated(g) ==
    IF g.label.some
    THEN g.label
    ELSE SomeLabel(Append(Digits((g.ratio * 100) \div RatioScale), "%"), DefaultStyle)

\* the configured label, or format!("{}%", (ratio * 100.0).round())
LabelSpan(g) ==
    IF g.label.some
    THEN g.label
    ELSE SomeLabel(Append(Digits(Round(g.ratio * 100, RatioScale)), "%"), DefaultStyle)

\* the first inner loop started at column 0 instead of gauge_area.left()
PaintSpaces_FromColumnZero(b, ga, end, y) ==
    [c \in Cells |->
        IF c[2] = y /\ c[1] < end THEN [b[c] EXCEPT !.symbol = " "] ELSE b[c]]

\* first inner loop: buf.get_mut(x, y).set_symbol(" ") for x in left..end
PaintSpaces(b, ga, end, y) ==
    [c \in Cells |->
        IF c[2] = y /\ c[1] >= Left(ga) /\ c[1] < end
        THEN [b[c] EXCEPT !.symbol = " "]
        ELSE b[c]]

\* the label on the center row; the u16 subtractions panic in a debug build
\* and wrap in a release build
WriteLabel(b, ga, label, y, debug) ==
    LET label_width == Len(label.content)
        diff == ga.width - label_width
        sum == Wrap(diff) \div 2 + Left(ga)
        middle == Wrap(sum)
        room == Right(ga) - middle
    IN  IF debug /\ (Overflows(diff) \/ Overflows(sum) \/ Overflows(room))
        THEN [buf |-> b, ok |-> FALSE]
        ELSE SetSpan(b, middle, y, label, Wrap(room), debug)

\* second inner loop: fg and bg of the gauge style, swapped
FixColors(b, ga, end, y, gs) ==
    [c \in Cells |->
        IF c[2] = y /\ c[1] >= Left(ga) /\ c[1] < end
        THEN [b[c] EXCEPT !.fg = IF gs.bg = NoColor THEN Reset ELSE gs.bg,
                          !.bg = IF gs.fg = NoColor THEN Reset ELSE gs.fg]
        ELSE b[c]]

\* one pass with the colours fixed before the label is written
RenderRow_ColorsBeforeLabel(b, g, ga, y, debug) ==
    LET end == FillEnd(ga, g.ratio)
        fixed == FixColors(PaintSpaces(b, ga, end, y), ga, end, y, g.gauge_style)
    IN  IF y = Center(ga)
        THEN WriteLabel(fixed, ga, LabelSpan(g), y, debug)
        ELSE [buf |-> fixed, ok |-> TRUE]

\* one pass of the loop over the rows
RenderRow(b, g, ga, y, debug) ==
    LET end == FillEnd(ga, g.ratio)
        spaced == PaintSpaces(b, ga, end, y)
        labelled == IF y = Center(ga)
                    THEN WriteLabel(spaced, ga, LabelSpan(g), y, debug)
                    ELSE [buf |-> spaced, ok |-> TRUE]
    IN  IF labelled.ok
        THEN [buf |-> FixColors(labelled.buf, ga, end, y, g.gauge_style), ok |-> TRUE]
        ELSE labelled

\* for y in gauge_area.top()..gauge_area.bottom()
RECURSIVE RenderRows(_, _, _, _, _)
RenderRows(b, g, ga, y, debug) ==
    IF y >= Bottom(ga)
    THEN [buf |-> b, ok |-> TRUE]
    ELSE LET row == RenderRow(b, g, ga, y, debug)
         IN  IF row.ok THEN RenderRows(row.buf, g, ga, y + 1, debug) ELSE row

\* Widget::render for Gauge2
RenderGauge(g, a, b, debug) ==
    LET based == SetStyle(b, a, g.style)
        gauge_area == GaugeArea(g.block, a)
        framed == IF g.block.some THEN BlockRender(g.block, a, based) ELSE based
        styled == SetStyle(framed, gauge_area, g.gauge_style)
    IN  IF gauge_area.height < 1
        THEN [buf |-> styled, ok |-> TRUE]
        ELSE RenderRows(styled, g, gauge_area, Top(gauge_area), debug)

-----------------------------------------------------------------------------
(* Inputs *)

\* what the buffer holds before the gauge is drawn: another widget's cells
OldCell == [symbol |-> "x", fg |-> "White", bg |-> "Black"]
OldBuffer == [c \in Cells |-> OldCell]

BaseStyles == {DefaultStyle, Style("Green", "Black")}
GaugeStyles == {DefaultStyle, Style("Red", "Blue"), Style("Red", NoColor)}
Labels == {SomeLabel(<<>>, DefaultStyle), SomeLabel(<<"G", "o">>, Style("Yellow", "Green"))}
Blocks == {SomeBlock(FALSE), SomeBlock(TRUE)}
PercentInputs == {0, 50, MaxPercent, MaxPercent + 1}
AllPercentInputs == 0 .. MaxPercentInput
RatioInputs == {0 - 500, 0, 205, RatioScale, RatioScale + 100}
AllRatioInputs == RatioInputs \cup {200}

\* every rectangle that lies in the buffer
Areas ==
    {Rect(x, y, w, h) : <<x, y, w, h>> \in
        {q \in (0 .. BufW) \X (0 .. BufH) \X (0 .. BufW) \X (0 .. BufH) :
            q[1] + q[3] <= BufW /\ q[2] + q[4] <= BufH}}
\* the one-row rectangles that start at the buffer's origin
RowAreas == {a \in Areas : a.x = 0 /\ a.y = 0 /\ a.height = 1}

NoCall == [op |-> "new", arg |-> 0]
Call(op, arg) == [op |-> op, arg |-> arg]

-----------------------------------------------------------------------------
(* The state machine *)

Init ==
    /\ gauge = DefaultGauge
    /\ buf = OldBuffer
    /\ area = Rect(0, 0, 0, 0)
    /\ status = "building"
    /\ last = NoCall

Configured(g, op, arg) ==
    /\ gauge' = g
    /\ last' = Call(op, arg)
    /\ UNCHANGED <<buf, area, status>>

DoBlock ==
    /\ status = "building"
    /\ \E b \in Blocks : Configured(Block(gauge, b), "block", 0)

DoPercent(inputs) ==
    /\ status = "building"
    /\ \E p \in inputs :
         LET r == Percent(gauge, p)
         IN  /\ gauge' = r.gauge
             /\ status' = IF r.ok THEN "building" ELSE "config_panic"
             /\ last' = Call("percent", p)
             /\ UNCHANGED <<buf, area>>

DoRatio(inputs) ==
    /\ status = "building"
    /\ \E x \in inputs :
         LET r == Ratio(gauge, x)
         IN  /\ gauge' = r.gauge
             /\ status' = IF r.ok THEN "building" ELSE "config_panic"
             /\ last' = Call("ratio", x)
             /\ UNCHANGED <<buf, area>>

DoLabel ==
    /\ status = "building"
    /\ \E l \in Labels : Configured(Label(gauge, l), "label", 0)

DoStyle ==
    /\ status = "building"
    /\ \E s \in BaseStyles : Configured(SetBaseStyle(gauge, s), "style", 0)

DoGaugeStyle ==
    /\ status = "building"
    /\ \E s \in GaugeStyles : Configured(GaugeStyle(gauge, s), "gauge_style", 0)

DoRender(areas) ==
    /\ status = "building"
    /\ \E a \in areas, debug \in BOOLEAN :
         LET r == RenderGauge(gauge, a, buf, debug)
         IN  /\ buf' = r.buf
             /\ area' = a
             /\ status' = IF r.ok THEN "rendered" ELSE "render_panic"
             /\ last' = Call("render", 0)
             /\ UNCHANGED gauge

\* the next frame: a fresh gauge over what the other widgets drew
New ==
    /\ status # "building"
    /\ gauge' = DefaultGauge
    /\ buf' = OldBuffer
    /\ area' = Rect(0, 0, 0, 0)
    /\ status' = "building"
    /\ last' = NoCall

Next ==
    \/ DoBlock
    \/ DoPercent(PercentInputs)
    \/ DoRatio(RatioInputs)
    \/ DoLabel
    \/ DoStyle
    \/ DoGaugeStyle
    \/ DoRender(Areas)
    \/ New

Spec == Init /\ [][Next]_vars

\* the same program with percent() over its whole range and the ratio 0.2,
\* rendered into one row
NextPercent ==
    \/ DoBlock
    \/ DoPercent(AllPercentInputs)
    \/ DoRatio(AllRatioInputs)
    \/ DoLabel
    \/ DoStyle
    \/ DoGaugeStyle
    \/ DoRender(RowAreas)
    \/ New

SpecPercent == Init /\ [][NextPercent]_vars

-----------------------------------------------------------------------------
(* What the claims are stated with *)

Returned == status = "rendered"
Called == status \in {"rendered", "render_panic"}

\* the drawable rectangle of the last render
Drawable == GaugeArea(gauge.block, area)
Columns(r) == Left(r) .. (Right(r) - 1)
Rows(r) == Top(r) .. (Bottom(r) - 1)

\* round(W * ratio), computed on the thousandths
Filled(W) == (2 * W * gauge.ratio + RatioScale) \div (2 * RatioScale)

LabelText == LabelSpan(gauge).content
LabelWidth == Len(LabelText)
Fits(d) == LabelWidth <= d.width
Middle(d) == Left(d) + (d.width - LabelWidth) \div 2
CenterRow(d) == Top(d) + d.height \div 2
\* the cell (x, y) is one the label is written to
Covered(d, x, y) ==
    /\ Fits(d)
    /\ y = CenterRow(d)
    /\ x >= Middle(d)
    /\ x < Middle(d) + LabelWidth

Glyphs == {"G", "o", "%"} \cup {DigitChars[i] : i \in 1 .. 10}

SwappedFg == IF gauge.gauge_style.bg = NoColor THEN Reset ELSE gauge.gauge_style.bg
SwappedBg == IF gauge.gauge_style.fg = NoColor THEN Reset ELSE gauge.gauge_style.fg
IsSwapped(cell) == cell.fg = SwappedFg /\ cell.bg = SwappedBg

\* base style, then the fill style as configured, then the label's own style
Unswapped(d, x, y) ==
    LET under == Patch(Patch(OldCell, gauge.style), gauge.gauge_style)
    IN  IF Covered(d, x, y) THEN Patch(under, LabelSpan(gauge).style) ELSE under
SameColors(c1, c2) == c1.fg = c2.fg /\ c1.bg = c2.bg

\* the symbol the block leaves at (x, y) of the area
Framed(x, y) ==
    IF gauge.block.some /\ gauge.block.borders
    THEN BorderSymbol(area, x, y, OldCell.symbol)
    ELSE OldCell.symbol

-----------------------------------------------------------------------------
\* C1: with a block configured and a one-row area, whenever render returns
\* the whole row is the drawable rectangle: its first round(width * ratio)
\* cells hold a space and the swapped colours, the label's glyphs are on that
\* row, and every other cell of the row still shows what the block drew
\* into the area, under the base style overlaid by the fill style.
C1_OneRowUsesFullArea ==
    (Returned /\ gauge.block.some /\ area.height = 1) =>
        \A x \in Columns(area) :
            LET y == Top(area)
                cell == buf[<<x, y>>]
                inFill == x < Left(area) + Filled(area.width)
                covered == Covered(area, x, y)
            IN  /\ covered => cell.symbol = LabelText[x - Middle(area) + 1]
                /\ (inFill /\ ~covered) => cell.symbol = " "
                /\ (~inFill /\ ~covered) => cell.symbol = Framed(x, y)
                /\ inFill => IsSwapped(cell)
                /\ ~inFill => SameColors(cell, Unswapped(area, x, y))

\* a bordered gauge at 50% in a row of four cells: "50%" over the first
\* three cells, two of them filled, the block's corner in the fourth
C1_Witness ==
    /\ Returned
    /\ gauge.block.some /\ gauge.block.borders
    /\ area = Rect(0, 0, 4, 1)
    /\ gauge.ratio = 500 /\ ~gauge.label.some
    /\ buf[<<0, 0>>].symbol = "5"
    /\ buf[<<3, 0>>].symbol = "+tr"

\* C2: whenever render returns, on every row of the drawable rectangle of
\* width W the first round(W * ratio) cells, and only they, were painted:
\* they carry the swapped fill colours and a space (or the label's glyph
\* where the label lies over them), the cells after them carry neither; the
\* count is 0 at ratio 0.0, W at ratio 1.0 and never more than W.
C2_FillIsRoundedShare ==
    (Returned /\ Drawable.height >= 1) =>
        LET d == Drawable
            n == Filled(d.width)
        IN  /\ n >= 0 /\ n <= d.width
            /\ gauge.ratio = 0 => n = 0
            /\ gauge.ratio = RatioScale => n = d.width
            /\ \A y \in Rows(d), x \in Columns(d) :
                 LET cell == buf[<<x, y>>]
                 IN  IF x < Left(d) + n
                     THEN /\ IsSwapped(cell)
                          /\ ~Covered(d, x, y) => cell.symbol = " "
                     ELSE /\ cell.symbol # " "
                          /\ SameColors(cell, Unswapped(d, x, y))

\* three rows of three cells at 50% in red on blue: two cells of each row
\* are filled, the third is not
C2_Witness ==
    /\ Returned
    /\ area = Rect(1, 0, 3, 3) /\ ~gauge.block.some
    /\ gauge.ratio = 500
    /\ gauge.gauge_style = Style("Red", "Blue")
    /\ \A y \in 0 .. 2 :
         /\ buf[<<2, y>>].fg = "Blue" /\ buf[<<2, y>>].bg = "Red"
         /\ buf[<<3, y>>].fg = "Red" /\ buf[<<3, y>>].bg = "Blue"
    /\ buf[<<1, 0>>].symbol = " " /\ buf[<<3, 0>>].symbol = "x"

\* C3: a call percent(p) with p <= 100 returns the configuration with the
\* ratio p/100 and every other field as it was; a call with p > 100 panics
\* and yields no configuration.
C3_PercentContract ==
    [][last'.op = "percent" =>
          IF last'.arg <= 100
          THEN /\ status' = "building"
               /\ gauge' = [gauge EXCEPT !.ratio = last'.arg * 10]
          ELSE status' = "config_panic"]_vars

\* percent(100) on a gauge that already has a label and a fill style
C3_Witness ==
    /\ last = Call("percent", 100)
    /\ status = "building"
    /\ gauge.ratio = RatioScale
    /\ gauge.label.some
    /\ gauge.gauge_style = Style("Red", "Blue")

\* C4: a call ratio(r) with 0.0 <= r <= 1.0 stores r, a call with r < 0.0
\* or r > 1.0 panics and stores nothing; the stored ratio is always in
\* [0.0, 1.0].
C4_RatioContract ==
    /\ [](gauge.ratio >= 0 /\ gauge.ratio <= RatioScale)
    /\ [][last'.op = "ratio" =>
            IF last'.arg >= 0 /\ last'.arg <= RatioScale
            THEN /\ status' = "building"
                 /\ gauge' = [gauge EXCEPT !.ratio = last'.arg]
            ELSE /\ status' = "config_panic"
                 /\ gauge'.ratio = gauge.ratio]_vars

\* ratio(-0.5) refused on a gauge that percent(50) had set to 0.5
C4_Witness ==
    /\ last = Call("ratio", 0 - 500)
    /\ status = "config_panic"
    /\ gauge.ratio = 500

\* C5: in a drawable rectangle of more than one row no cell of a row other
\* than top + height \div 2 holds a glyph of the label, also when render
\* panics; when render returns and the label fits, its glyphs are on that row.
C5_LabelOnCenterRowOnly ==
    (Called /\ Drawable.height > 1) =>
        LET d == Drawable
        IN  /\ \A c \in Cells :
                 c[2] # Top(d) + d.height \div 2 => buf[c].symbol \notin Glyphs
            /\ (Returned /\ Fits(d)) =>
                 \A i \in 1 .. LabelWidth :
                    buf[<<Middle(d) + i - 1, Top(d) + d.height \div 2>>].symbol
                        = LabelText[i]

\* "Go" on the second of two rows, and on the second of three
C5_Witness ==
    /\ Returned
    /\ gauge.label.some /\ LabelWidth = 2
    /\ area.height >= 2 /\ area.y = 0 /\ area.x = 1 /\ area.width = 3
    /\ buf[<<1, 1>>].symbol = "G" /\ buf[<<2, 1>>].symbol = "o"
    /\ buf[<<1, 0>>].symbol # "G"

\* reading a decimal numeral back
IsNumeral(text) ==
    /\ Len(text) >= 1
    /\ \A i \in 1 .. Len(text) : \E k \in 1 .. 10 : DigitChars[k] = text[i]
    /\ Len(text) > 1 => text[1] # "0"
DigitValue(ch) == (CHOOSE k \in 1 .. 10 : DigitChars[k] = ch) - 1
RECURSIVE ParseDecimal(_)
ParseDecimal(text) ==
    IF Len(text) = 0 THEN 0
    ELSE 10 * ParseDecimal(SubSeq(text, 1, Len(text) - 1)) + DigitValue(text[Len(text)])

\* C6: whenever render returns and the label fits the drawable rectangle,
\* a gauge without a configured label shows the decimal numeral of
\* round(ratio * 100), ties rounded up, followed by "%" (0.2 shows "20%",
\* 0.205 shows "21%", percent(p) shows "p%"); a gauge with a configured
\* label shows that label, and no digit or "%" is written.
C6_DefaultLabelIsRoundedPercent ==
    (Returned /\ Drawable.height >= 1) =>
        LET d == Drawable
            row == Top(d) + d.height \div 2
        IN  IF gauge.label.some
            THEN LET text == gauge.label.content
                     m == Left(d) + (d.width - Len(text)) \div 2
                 IN  /\ Len(text) <= d.width =>
                          \A i \in 1 .. Len(text) : buf[<<m + i - 1, row>>].symbol = text[i]
                     /\ \A c \in Cells : ~IsNumeral(<<buf[c].symbol>>) /\ buf[c].symbol # "%"
            ELSE LET n == (2 * 100 * gauge.ratio + RatioScale) \div (2 * RatioScale)
                     w == IF n < 10 THEN 2 ELSE IF n < 100 THEN 3 ELSE 4
                     m == Left(d) + (d.width - w) \div 2
                     text == [i \in 1 .. w |-> buf[<<m + i - 1, row>>].symbol]
                     number == SubSeq(text, 1, w - 1)
                 IN  w <= d.width =>
                        /\ text[w] = "%"
                        /\ IsNumeral(number)
                        /\ ParseDecimal(number) = n
                        /\ gauge.ratio = 200 => text = <<"2", "0", "%">>
                        /\ gauge.ratio = 205 => text = <<"2", "1", "%">>
                        /\ \A q \in 0 .. 100 :
                             gauge.ratio = Percent(DefaultGauge, q).gauge.ratio =>
                                ParseDecimal(number) = q

\* ratio 0.205 in a row of four cells shows "21%"
C6_Witness ==
    /\ Returned
    /\ ~gauge.label.some /\ gauge.ratio = 205
    /\ area = Rect(0, 0, 4, 1)
    /\ buf[<<0, 0>>].symbol = "2"
    /\ buf[<<1, 0>>].symbol = "1"
    /\ buf[<<2, 0>>].symbol = "%"

\* C7: a drawable rectangle of zero height or of zero width never makes
\* render fail: render returns, and the buffer holds the base style over
\* the area, the block, and the fill style over the drawable rectangle,
\* and nothing else.
C7_DegenerateNeverFails ==
    (Called /\ (Drawable.height = 0 \/ Drawable.width = 0)) =>
        /\ Returned
        /\ LET based == SetStyle(OldBuffer, area, gauge.style)
               framed == IF gauge.block.some
                         THEN BlockRender(gauge.block, area, based)
                         ELSE based
           IN  buf = SetStyle(framed, Drawable, gauge.gauge_style)

\* C8: whenever render returns, every cell of the fill range of every
\* drawable row has the fill style's background as its foreground and the
\* fill style's foreground as its background (Reset where unset), the cells
\* the label was written to included, and those keep the label's glyph.
C8_SwapAfterLabel ==
    (Returned /\ Drawable.height >= 1) =>
        LET d == Drawable
            gs == gauge.gauge_style
        IN  \A y \in Rows(d), x \in Left(d) .. (Left(d) + Filled(d.width) - 1) :
               LET cell == buf[<<x, y>>]
               IN  /\ cell.fg = (IF gs.bg = NoColor THEN Reset ELSE gs.bg)
                   /\ cell.bg = (IF gs.fg = NoColor THEN Reset ELSE gs.fg)
                   /\ Covered(d, x, y) => cell.symbol = LabelText[x - Middle(d) + 1]

\* a full gauge in red on blue under the yellow-on-green label "Go": the
\* label's cells are blue on red and still read "Go"
C8_Witness ==
    /\ Returned
    /\ gauge.label = SomeLabel(<<"G", "o">>, Style("Yellow", "Green"))
    /\ gauge.gauge_style = Style("Red", "Blue")
    /\ gauge.ratio = RatioScale
    /\ area = Rect(0, 0, 3, 1)
    /\ buf[<<0, 0>>] = [symbol |-> "G", fg |-> "Blue", bg |-> "Red"]
    /\ buf[<<1, 0>>] = [symbol |-> "o", fg |-> "Blue", bg |-> "Red"]

\* C9: a label of any width, wider than the drawable rectangle included,
\* never makes render fail, and no glyph of it is written at or beyond the
\* drawable rectangle's right edge (stated for a drawable rectangle of one
\* column or more; the rectangle without columns is C7's).
C9_WideLabelNeverFails ==
    (Called /\ Drawable.height >= 1 /\ Drawable.width >= 1 /\ LabelWidth > Drawable.width) =>
        /\ Returned
        /\ \A c \in Cells : c[1] >= Right(Drawable) => buf[c].symbol \notin Glyphs

\* C10: render changes no cell outside the area, also when it panics; when
\* it returns, with no block and a label that fits, every cell of the area
\* after the fill range and not under the label keeps its symbol and has
\* the base style overlaid by the fill style, unswapped.
C10_EffectIsConfined ==
    /\ Called => \A c \in Cells : ~InRect(area, c[1], c[2]) => buf[c] = OldCell
    /\ (Returned /\ ~gauge.block.some /\ LabelWidth <= area.width) =>
          \A y \in Rows(area), x \in Columns(area) :
             (x >= Left(area) + Filled(area.width) /\ ~Covered(area, x, y)) =>
                buf[<<x, y>>] = [Patch(Patch(OldCell, gauge.style), gauge.gauge_style)
                                    EXCEPT !.symbol = OldCell.symbol]

\* an empty gauge labelled "Go" in the three right cells of the middle row:
\* the cell after the label is the old "x" in the fill style's red over the
\* base style's black, the cell left of the area is as it was
C10_Witness ==
    /\ Returned
    /\ ~gauge.block.some
    /\ area = Rect(1, 1, 3, 1)
    /\ gauge.ratio = 0
    /\ gauge.style = Style("Green", "Black")
    /\ gauge.gauge_style = Style("Red", NoColor)
    /\ buf[<<1, 1>>].symbol = "G"
    /\ buf[<<3, 1>>] = [symbol |-> "x", fg |-> "Red", bg |-> "Black"]
    /\ buf[<<0, 1>>] = OldCell

=============================================================================
